---- MODULE Spec2Model ----
(***************************************************************************)
(* Model of backend/server.py: the account routes (register, login,        *)
(* /auth/me), the bearer-token helpers (create_access_token,               *)
(* get_current_user) and the /code/explain route.                          *)
(*                                                                         *)
(* Conventions                                                             *)
(*   - a Python Optional value is a sequence of length 0 (None) or 1;      *)
(*   - text is a sequence of one-character strings, a password a sequence  *)
(*     of code points, so slicing, len() and + are the sequence operations;*)
(*   - time is counted in minutes (all timedeltas of the code are whole    *)
(*     minutes);                                                           *)
(*   - a float is counted in tenths (0.8 is 8, 1.5 is 15).                 *)
(***************************************************************************)
EXTENDS Integers, Sequences, FiniteSets, TLC

VARIABLES users, clock, pc, req, last, calls

vars == <<users, clock, pc, req, last, calls>>

(***************************************************************************)
(* Bounds of the model                                                     *)
(***************************************************************************)
NumWorkers == 2
MaxClock == 45

Workers == 1..NumWorkers

(***************************************************************************)
(* Program constants                                                       *)
(***************************************************************************)
SECRET_KEY == "your-secret-key-change-in-production"
ACCESS_TOKEN_EXPIRE_MINUTES == 30
DefaultExpireMinutes == 15
BcryptMaxBytes == 72

None == <<>>
Some(x) == <<x>>

Min(a, b) == IF a < b THEN a ELSE b

\* Python s[:n]
Take(s, n) == SubSeq(s, 1, Min(n, Len(s)))

\* n copies of c
Rep(n, c) == [i \in 1..n |-> c]

(***************************************************************************)
(* str.encode('utf-8') and bytes.decode('utf-8') for code points < 2048    *)
(***************************************************************************)
Utf8EncodeChar(c) ==
    IF c < 128 THEN <<c>> ELSE <<192 + (c \div 64), 128 + (c % 64)>>

\* the encodings of the characters, joined; the text is halved at each step
RECURSIVE Utf8Encode(_)
Utf8Encode(s) ==
    IF s = <<>> THEN <<>>
    ELSE IF Len(s) = 1 THEN Utf8EncodeChar(s[1])
    ELSE LET half == Len(s) \div 2
         IN  Utf8Encode(SubSeq(s, 1, half))
                 \o Utf8Encode(SubSeq(s, half + 1, Len(s)))

\* [ok |-> FALSE] is UnicodeDecodeError
RECURSIVE Utf8DecodeFrom(_, _)
Utf8DecodeFrom(b, i) ==
    IF i > Len(b) THEN [ok |-> TRUE, chars |-> <<>>]
    ELSE IF b[i] < 128 THEN
        LET rest == Utf8DecodeFrom(b, i + 1)
        IN  [ok |-> rest.ok, chars |-> <<b[i]>> \o rest.chars]
    ELSE IF b[i] >= 192 /\ b[i] < 224 /\ i + 1 <= Len(b)
            /\ b[i + 1] >= 128 /\ b[i + 1] < 192 THEN
        LET rest == Utf8DecodeFrom(b, i + 2)
        IN  [ok |-> rest.ok,
             chars |-> <<(b[i] - 192) * 64 + (b[i + 1] - 128)>> \o rest.chars]
    ELSE [ok |-> FALSE, chars |-> <<>>]

\* the decoding of long input: the bytes are halved at a character boundary
\* (a continuation byte stays with the byte before it), short input is
\* decoded byte by byte
RECURSIVE Utf8Decode(_)
Utf8Decode(b) ==
    IF Len(b) <= 3 THEN Utf8DecodeFrom(b, 1)
    ELSE LET half == Len(b) \div 2
             cut == IF b[half + 1] >= 128 /\ b[half + 1] < 192
                    THEN half + 1 ELSE half
             left == Utf8Decode(SubSeq(b, 1, cut))
             right == Utf8Decode(SubSeq(b, cut + 1, Len(b)))
         IN  [ok |-> left.ok /\ right.ok, chars |-> left.chars \o right.chars]

(***************************************************************************)
(* pwd_context (passlib CryptContext, scheme bcrypt).  The hash is modelled*)
(* as an ideal one-way function of the bytes bcrypt reads: the first 72    *)
(* bytes of the encoded secret.                                            *)
(***************************************************************************)
PwdContextHash(secret) ==
    [scheme |-> "bcrypt", digest |-> Take(Utf8Encode(secret), BcryptMaxBytes)]

PwdContextVerify(secret, hash) ==
    hash.scheme = "bcrypt"
    /\ hash.digest = Take(Utf8Encode(secret), BcryptMaxBytes)

verify_password(plain_password, hashed_password) ==
    PwdContextVerify(plain_password, hashed_password)

\* [ok |-> FALSE] is the UnicodeDecodeError of decoding a cut character
get_password_hash(password) ==
    LET password_bytes == Take(Utf8Encode(password), BcryptMaxBytes)
        decoded == Utf8Decode(password_bytes)
    IN  IF decoded.ok
        THEN [ok |-> TRUE, hash |-> PwdContextHash(decoded.chars)]
        ELSE [ok |-> FALSE, hash |-> PwdContextHash(<<>>)]

(***************************************************************************)
(* Bearer tokens.  A token is a payload and its HS256 signature, modelled  *)
(* as an ideal MAC: the pair of the key and the payload.  The payload's    *)
(* "sub" is Optional (the key may be absent).                              *)
(***************************************************************************)
Sign(key, payload) == <<key, payload>>

JwtEncode(payload, key) ==
    [wellformed |-> TRUE, payload |-> payload, sig |-> Sign(key, payload)]

\* a string that is no JWT at all
GarbageToken ==
    [wellformed |-> FALSE, payload |-> [sub |-> None, exp |-> 0],
     sig |-> Sign("", [sub |-> None, exp |-> 0])]

\* jwt.decode that still accepts a token at the instant of its expiry
JwtDecode_AtExpiry(token, key, now) ==
    IF ~token.wellformed THEN [ok |-> FALSE, payload |-> token.payload]
    ELSE IF token.sig # Sign(key, token.payload)
        THEN [ok |-> FALSE, payload |-> token.payload]
    ELSE IF token.payload.exp < now
        THEN [ok |-> FALSE, payload |-> token.payload]
    ELSE [ok |-> TRUE, payload |-> token.payload]

\* jwt.decode: [ok |-> FALSE] is a PyJWTError (DecodeError,
\* InvalidSignatureError, ExpiredSignatureError)
JwtDecode(token, key, now) ==
    IF ~token.wellformed THEN [ok |-> FALSE, payload |-> token.payload]
    ELSE IF token.sig # Sign(key, token.payload)
        THEN [ok |-> FALSE, payload |-> token.payload]
    ELSE IF token.payload.exp <= now
        THEN [ok |-> FALSE, payload |-> token.payload]
    ELSE [ok |-> TRUE, payload |-> token.payload]

\* expires_delta is Optional; Python's "if expires_delta:" is false for None
\* and for timedelta(0)
create_access_token(data, expires_delta, now) ==
    LET expire == IF expires_delta # None /\ expires_delta[1] # 0
                  THEN now + expires_delta[1]
                  ELSE now + DefaultExpireMinutes
    IN  JwtEncode([sub |-> data.sub, exp |-> expire], SECRET_KEY)

(***************************************************************************)
(* db.users: a collection of documents in insertion order, no unique index *)
(***************************************************************************)
RECURSIVE FindFrom(_, _, _, _)
FindFrom(coll, field, value, i) ==
    IF i > Len(coll) THEN None
    ELSE IF coll[i][field] = value THEN Some(coll[i])
    ELSE FindFrom(coll, field, value, i + 1)

\* db.users.find_one({field: value})
FindOne(coll, field, value) == FindFrom(coll, field, value, 1)

\* db.users.insert_one(doc)
InsertOne(coll, doc) == Append(coll, doc)

\* User(**user_dict): the id is a fresh uuid4, the rest the model's defaults
NewUser(id, email, username, hashed_password) ==
    [id |-> id, email |-> email, username |-> username,
     hashed_password |-> hashed_password,
     preferred_languages |-> <<"python">>, skill_level |-> "beginner",
     explanation_language |-> "english", total_xp |-> 0, streak_days |-> 0]

FreshId(coll) == Len(coll) + 1

(***************************************************************************)
(* HTTP responses.  token is the Token body, user the User body, result    *)
(* the CodeExplanationResponse body; an error carries none of them.        *)
(***************************************************************************)
Response(op, status, detail) ==
    [op |-> op, status |-> status, detail |-> detail,
     token |-> None, user |-> None, result |-> None]

TokenResponse(op, access_token) ==
    [Response(op, 200, "") EXCEPT
        !.token = Some([access_token |-> access_token, token_type |-> "bearer"])]

NoResponse == Response("none", 0, "")

\* the fields of the User model, which response_model=User serialises
UserFields ==
    {"id", "email", "username", "hashed_password", "preferred_languages",
     "skill_level", "explanation_language", "total_xp", "streak_days"}

ResponseModelUser(doc) == [f \in UserFields \cap DOMAIN doc |-> doc[f]]

(***************************************************************************)
(* get_current_user, behind security = HTTPBearer(): credentials is        *)
(* Optional (no Authorization header).                                     *)
(***************************************************************************)
AuthFailure(status, detail) ==
    [ok |-> FALSE, status |-> status, detail |-> detail, user |-> None]

get_current_user(credentials, coll, now) ==
    IF credentials = None THEN AuthFailure(403, "Not authenticated")
    ELSE
    LET decoded == JwtDecode(credentials[1], SECRET_KEY, now)
        user_id == decoded.payload.sub
    IN  IF ~decoded.ok \/ user_id = None
        THEN AuthFailure(401, "Invalid authentication credentials")
        ELSE LET user == FindOne(coll, "id", user_id[1])
             IN  IF user = None
                 THEN AuthFailure(401, "User not found")
                 ELSE [ok |-> TRUE, status |-> 200, detail |-> "", user |-> user]

(***************************************************************************)
(* POST /auth/login                                                        *)
(***************************************************************************)
\* login that tells an unknown email from a wrong password
login_TwoMessages(user_credentials, coll, now) ==
    LET user == FindOne(coll, "email", user_credentials.email)
    IN  IF user = None THEN Response("login", 404, "User not found")
        ELSE IF ~verify_password(user_credentials.password,
                                 user[1].hashed_password)
        THEN Response("login", 401, "Incorrect email or password")
        ELSE TokenResponse("login",
                 create_access_token([sub |-> Some(user[1].id)],
                                     Some(ACCESS_TOKEN_EXPIRE_MINUTES), now))

login(user_credentials, coll, now) ==
    LET user == FindOne(coll, "email", user_credentials.email)
    IN  IF user = None
           \/ ~verify_password(user_credentials.password, user[1].hashed_password)
        THEN Response("login", 401, "Incorrect email or password")
        ELSE TokenResponse("login",
                 create_access_token([sub |-> Some(user[1].id)],
                                     Some(ACCESS_TOKEN_EXPIRE_MINUTES), now))

(***************************************************************************)
(* GET /auth/me                                                            *)
(***************************************************************************)
get_current_user_info(credentials, coll, now) ==
    LET current_user == get_current_user(credentials, coll, now)
    IN  IF ~current_user.ok
        THEN Response("me", current_user.status, current_user.detail)
        ELSE [Response("me", 200, "") EXCEPT
                 !.user = Some(ResponseModelUser(current_user.user[1]))]

(***************************************************************************)
(* POST /auth/register: the part of the handler after the two lookups.     *)
(* An exception of get_password_hash is not handled: HTTP 500, no insert.  *)
(***************************************************************************)
\* register that takes the token's subject after the insert, from a new id
RegisterCreate_StaleId(user_data, coll, now) ==
    LET hashed == get_password_hash(user_data.password)
        new_user == NewUser(FreshId(coll), user_data.email, user_data.username,
                            hashed.hash)
    IN  IF ~hashed.ok
        THEN [coll |-> coll,
              resp |-> Response("register", 500, "Internal Server Error")]
        ELSE [coll |-> InsertOne(coll, new_user),
              resp |-> TokenResponse("register",
                           create_access_token(
                               [sub |-> Some(FreshId(InsertOne(coll, new_user)))],
                               Some(ACCESS_TOKEN_EXPIRE_MINUTES), now))]

RegisterCreate(user_data, coll, now) ==
    LET hashed == get_password_hash(user_data.password)
        new_user == NewUser(FreshId(coll), user_data.email, user_data.username,
                            hashed.hash)
    IN  IF ~hashed.ok
        THEN [coll |-> coll,
              resp |-> Response("register", 500, "Internal Server Error")]
        ELSE [coll |-> InsertOne(coll, new_user),
              resp |-> TokenResponse("register",
                           create_access_token([sub |-> Some(new_user.id)],
                               Some(ACCESS_TOKEN_EXPIRE_MINUTES), now))]

(***************************************************************************)
(* Python values, as json.loads returns them and as the response model     *)
(* receives them.  A number is counted in tenths.  The items of a list are *)
(* values, the items of a dict are its members in the order of the text.   *)
(***************************************************************************)
PyStr(s) == [type |-> "str", s |-> s, n |-> 0, items |-> <<>>]
PyNum(n) == [type |-> "num", s |-> <<>>, n |-> n, items |-> <<>>]
PyBool(b) == [type |-> "bool", s |-> <<>>, n |-> IF b THEN 10 ELSE 0, items |-> <<>>]
PyNone == [type |-> "NoneType", s |-> <<>>, n |-> 0, items |-> <<>>]
PyList(items) == [type |-> "list", s |-> <<>>, n |-> 0, items |-> items]
PyDict(members) == [type |-> "dict", s |-> <<>>, n |-> 0, items |-> members]

\* d.get(key, default): with a repeated key the last member counts
DictGet(d, key, default) ==
    LET at == {i \in 1..Len(d.items) : d.items[i].key = key}
    IN  IF at = {} THEN default
        ELSE d.items[CHOOSE i \in at : \A j \in at : j <= i].value

\* text[:n] on a str
PySlice(v, n) == PyStr(Take(v.s, n))

(***************************************************************************)
(* json.loads on a text without escapes and with at most one digit after   *)
(* the decimal point.  [ok |-> FALSE] is the exception it raises.          *)
(***************************************************************************)
Digits == {"0", "1", "2", "3", "4", "5", "6", "7", "8", "9"}
DigitValue ==
    ("0" :> 0) @@ ("1" :> 1) @@ ("2" :> 2) @@ ("3" :> 3) @@ ("4" :> 4)
    @@ ("5" :> 5) @@ ("6" :> 6) @@ ("7" :> 7) @@ ("8" :> 8) @@ ("9" :> 9)
Whitespace == {" "}

ParseFail == [ok |-> FALSE, value |-> PyNone, next |-> 0]
Parsed(value, next) == [ok |-> TRUE, value |-> value, next |-> next]

\* the character at i, "" past the end
At(t, i) == IF i >= 1 /\ i <= Len(t) THEN t[i] ELSE ""

Least(S) == CHOOSE i \in S : \A j \in S : i <= j

SkipWhitespace(t, i) ==
    Least({j \in i..(Len(t) + 1) : At(t, j) \notin Whitespace})

RECURSIVE DigitsValue(_)
DigitsValue(ds) ==
    IF ds = <<>> THEN 0
    ELSE DigitsValue(SubSeq(ds, 1, Len(ds) - 1)) * 10 + DigitValue[ds[Len(ds)]]

AllDigits(ds) == ds # <<>> /\ \A k \in 1..Len(ds) : ds[k] \in Digits

\* the value in tenths of an unsigned numeral: digits, or digits "." digit
UnsignedNumeral(lex) ==
    LET dots == {k \in 1..Len(lex) : lex[k] = "."}
    IN  IF dots = {} THEN
            IF AllDigits(lex) THEN Parsed(PyNum(DigitsValue(lex) * 10), 0)
            ELSE ParseFail
        ELSE LET d == Least(dots)
                 whole == SubSeq(lex, 1, d - 1)
                 frac == SubSeq(lex, d + 1, Len(lex))
             IN  IF AllDigits(whole) /\ AllDigits(frac) /\ Len(frac) = 1
                 THEN Parsed(PyNum(DigitsValue(whole) * 10 + DigitsValue(frac)), 0)
                 ELSE ParseFail

Numeral(lex) ==
    IF lex # <<>> /\ lex[1] = "-"
    THEN LET u == UnsignedNumeral(Tail(lex))
         IN  IF u.ok THEN Parsed(PyNum(0 - u.value.n), 0) ELSE ParseFail
    ELSE UnsignedNumeral(lex)

ParseNumber(t, i) ==
    LET stop == Least({j \in i..(Len(t) + 1) :
                          At(t, j) \notin Digits \cup {".", "-"}})
        num == Numeral(SubSeq(t, i, stop - 1))
    IN  IF num.ok THEN Parsed(num.value, stop) ELSE ParseFail

ParseString(t, i) ==
    LET quotes == {j \in (i + 1)..Len(t) : t[j] = "\""}
    IN  IF quotes = {} THEN ParseFail
        ELSE Parsed(PyStr(SubSeq(t, i + 1, Least(quotes) - 1)), Least(quotes) + 1)

ParseLiteral(t, i, word, value) ==
    IF SubSeq(t, i, Min(Len(t), i + Len(word) - 1)) = word
    THEN Parsed(value, i + Len(word))
    ELSE ParseFail

RECURSIVE ParseValue(_, _), ParseElements(_, _, _), ParseMembers(_, _, _)

ParseValue(t, start) ==
    LET i == SkipWhitespace(t, start)
        c == At(t, i)
    IN  IF c = "{" THEN
            IF At(t, SkipWhitespace(t, i + 1)) = "}"
            THEN Parsed(PyDict(<<>>), SkipWhitespace(t, i + 1) + 1)
            ELSE ParseMembers(t, i + 1, <<>>)
        ELSE IF c = "[" THEN
            IF At(t, SkipWhitespace(t, i + 1)) = "]"
            THEN Parsed(PyList(<<>>), SkipWhitespace(t, i + 1) + 1)
            ELSE ParseElements(t, i + 1, <<>>)
        ELSE IF c = "\"" THEN ParseString(t, i)
        ELSE IF c \in Digits \cup {"-"} THEN ParseNumber(t, i)
        ELSE IF c = "n" THEN ParseLiteral(t, i, <<"n", "u", "l", "l">>, PyNone)
        ELSE IF c = "t"
            THEN ParseLiteral(t, i, <<"t", "r", "u", "e">>, PyBool(TRUE))
        ELSE IF c = "f"
            THEN ParseLiteral(t, i, <<"f", "a", "l", "s", "e">>, PyBool(FALSE))
        ELSE ParseFail

ParseElements(t, start, acc) ==
    LET element == ParseValue(t, start)
        sep == SkipWhitespace(t, element.next)
    IN  IF ~element.ok THEN ParseFail
        ELSE IF At(t, sep) = ","
            THEN ParseElements(t, sep + 1, Append(acc, element.value))
        ELSE IF At(t, sep) = "]"
            THEN Parsed(PyList(Append(acc, element.value)), sep + 1)
        ELSE ParseFail

ParseMembers(t, start, acc) ==
    LET k == SkipWhitespace(t, start)
        key == IF At(t, k) = "\"" THEN ParseString(t, k) ELSE ParseFail
        colon == SkipWhitespace(t, key.next)
        member == IF key.ok /\ At(t, colon) = ":"
                  THEN ParseValue(t, colon + 1) ELSE ParseFail
        sep == SkipWhitespace(t, member.next)
        members == Append(acc, [key |-> key.value.s, value |-> member.value])
    IN  IF ~member.ok THEN ParseFail
        ELSE IF At(t, sep) = "," THEN ParseMembers(t, sep + 1, members)
        ELSE IF At(t, sep) = "}" THEN Parsed(PyDict(members), sep + 1)
        ELSE ParseFail

\* json.loads(response): a TypeError when response is no str, a ValueError
\* when the text is no JSON document or is followed by more text
JsonLoads(response) ==
    IF response.type # "str" THEN ParseFail
    ELSE LET doc == ParseValue(response.s, 1)
         IN  IF doc.ok /\ SkipWhitespace(response.s, doc.next) = Len(response.s) + 1
             THEN doc ELSE ParseFail

(***************************************************************************)
(* CodeExplanationResponse(...): pydantic's validation of the four fields. *)
(* str takes a str; float takes a number, a bool or a str that is a        *)
(* numeral; List[str] takes a list of str.  [ok |-> FALSE] is the          *)
(* ValidationError.                                                        *)
(***************************************************************************)
IsStr(v) == v.type = "str"
IsFloat(v) ==
    \/ v.type \in {"num", "bool"}
    \/ v.type = "str" /\ Numeral(v.s).ok
IsListOfStr(v) ==
    v.type = "list" /\ \A k \in 1..Len(v.items) : v.items[k].type = "str"

ToFloat(v) == IF v.type = "str" THEN Numeral(v.s).value ELSE PyNum(v.n)

Fields(explanation, short_explanation, confidence_score, suggestions) ==
    [explanation |-> explanation, short_explanation |-> short_explanation,
     confidence_score |-> confidence_score, suggestions |-> suggestions]

\* the model built without validation (model_construct)
CodeExplanationResponse_Unvalidated(explanation, short_explanation, confidence_score, suggestions) ==
    [ok |-> TRUE,
     value |-> Fields(explanation, short_explanation, confidence_score,
                      suggestions)]

CodeExplanationResponse(explanation, short_explanation, confidence_score, suggestions) ==
    IF IsStr(explanation) /\ IsStr(short_explanation)
       /\ IsFloat(confidence_score) /\ IsListOfStr(suggestions)
    THEN [ok |-> TRUE,
          value |-> Fields(explanation, short_explanation,
                           ToFloat(confidence_score), suggestions)]
    ELSE [ok |-> FALSE,
          value |-> Fields(PyNone, PyNone, PyNone, PyNone)]

(***************************************************************************)
(* POST /code/explain, from the provider's answer on                       *)
(***************************************************************************)
KeyShort ==
    <<"s", "h", "o", "r", "t", "_", "e", "x", "p", "l", "a", "n", "a", "t",
      "i", "o", "n">>
KeyDetailed ==
    <<"d", "e", "t", "a", "i", "l", "e", "d", "_", "e", "x", "p", "l", "a",
      "n", "a", "t", "i", "o", "n">>
KeyConfidence ==
    <<"c", "o", "n", "f", "i", "d", "e", "n", "c", "e", "_", "s", "c", "o",
      "r", "e">>
KeySuggestions ==
    <<"s", "u", "g", "g", "e", "s", "t", "i", "o", "n", "s">>
Ellipsis == <<".", ".", ".">>
ShortLimit == 100
DefaultConfidence == 8
FallbackSuggestions ==
    PyList(<<PyStr(
              <<"C", "o", "n", "s", "i", "d", "e", "r", " ", "a", "d", "d", "i", "n",
                "g", " ", "c", "o", "m", "m", "e", "n", "t", "s">>),
             PyStr(
              <<"R", "e", "v", "i", "e", "w", " ", "v", "a", "r", "i", "a", "b", "l",
                "e", " ", "n", "a", "m", "i", "n", "g">>)>>)

\* what chat.send_message did: raised, or returned a value
Raised == [kind |-> "raised", value |-> PyNone]
Returned(value) == [kind |-> "returned", value |-> value]
NoOutcome == [kind |-> "none", value |-> PyNone]

ExplainFailure == Response("explain", 500, "Failed to explain code")
ExplainSuccess(fields) ==
    [Response("explain", 200, "") EXCEPT !.result = Some(fields)]

\* the inner try with the defaults of the fallback for the missing keys
ParsedExplanation_FallbackDefaults(response) ==
    LET parsed_response == JsonLoads(response)
    IN  IF parsed_response.ok /\ parsed_response.value.type = "dict"
        THEN CodeExplanationResponse(
                 DictGet(parsed_response.value, KeyDetailed, response),
                 DictGet(parsed_response.value, KeyShort,
                         PySlice(response, ShortLimit)),
                 DictGet(parsed_response.value, KeyConfidence,
                         PyNum(DefaultConfidence)),
                 DictGet(parsed_response.value, KeySuggestions,
                         FallbackSuggestions))
        ELSE CodeExplanationResponse(PyNone, PyNone, PyNone, PyNone)

\* the inner try: json.loads and the model built from the parsed object
ParsedExplanation(response) ==
    LET parsed_response == JsonLoads(response)
    IN  IF parsed_response.ok /\ parsed_response.value.type = "dict"
        THEN CodeExplanationResponse(
                 DictGet(parsed_response.value, KeyDetailed, response),
                 DictGet(parsed_response.value, KeyShort,
                         PySlice(response, ShortLimit)),
                 DictGet(parsed_response.value, KeyConfidence,
                         PyNum(DefaultConfidence)),
                 DictGet(parsed_response.value, KeySuggestions, PyList(<<>>)))
        ELSE CodeExplanationResponse(PyNone, PyNone, PyNone, PyNone)

\* the fallback that cuts from 100 characters on
FallbackExplanation_CutsAt100(response) ==
    IF response.type # "str"
    THEN CodeExplanationResponse(PyNone, PyNone, PyNone, PyNone)
    ELSE CodeExplanationResponse(
             response,
             IF Len(response.s) >= ShortLimit
             THEN PyStr(Take(response.s, ShortLimit) \o Ellipsis)
             ELSE response,
             PyNum(DefaultConfidence),
             FallbackSuggestions)

\* the bare except: len() and the slice raise on a value that is no str
FallbackExplanation(response) ==
    IF response.type # "str"
    THEN CodeExplanationResponse(PyNone, PyNone, PyNone, PyNone)
    ELSE CodeExplanationResponse(
             response,
             IF Len(response.s) > ShortLimit
             THEN PyStr(Take(response.s, ShortLimit) \o Ellipsis)
             ELSE response,
             PyNum(DefaultConfidence),
             FallbackSuggestions)

explain_code(outcome) ==
    IF outcome.kind = "raised" THEN ExplainFailure
    ELSE LET structured == ParsedExplanation(outcome.value)
             fallback == FallbackExplanation(outcome.value)
         IN  IF structured.ok THEN ExplainSuccess(structured.value)
             ELSE IF fallback.ok THEN ExplainSuccess(fallback.value)
             ELSE ExplainFailure

(***************************************************************************)
(* Inputs                                                                  *)
(***************************************************************************)
Emails == {"a@x.com", "b@x.com"}
Usernames == {"a", "b"}
\* "s" and "t"
Passwords == {<<115>>, <<116>>}

\* a request: the fields its operation does not use keep these values
NoRequest ==
    [email |-> "", username |-> "", password |-> <<>>,
     email_stored |-> FALSE, username_stored |-> FALSE,
     credentials |-> None, sub |-> 0, expires_delta |-> None,
     provider |-> NoOutcome]

\* the request as it arrives; email_stored and username_stored record whether
\* the store held the email and the username at that moment
Arrived(email, username, password) ==
    [NoRequest EXCEPT
        !.email = email, !.username = username, !.password = password,
        !.email_stored = FindOne(users, "email", email) # None,
        !.username_stored = FindOne(users, "username", username) # None]

\* the last exchange completed: a request, the response it got, and when
Exchange(request, response) ==
    [req |-> request, resp |-> response, at |-> clock]

\* tokens a client can present: the one the service returned last, and ones
\* made without the service
HeldTokens ==
    IF last.resp.token = None THEN {} ELSE {last.resp.token[1].access_token}

CraftedTokens ==
    {GarbageToken,
     JwtEncode([sub |-> None, exp |-> MaxClock + 1], SECRET_KEY),
     \* signed by the service, for an id no account has
     JwtEncode([sub |-> Some(0), exp |-> MaxClock + 1], SECRET_KEY)}
    \cup {JwtEncode([sub |-> Some(i), exp |-> MaxClock + 1], "another-key") :
             i \in 1..Len(users)}
    \cup {[t EXCEPT !.payload.exp = MaxClock + 1] : t \in HeldTokens}
    \cup {[t EXCEPT !.payload.sub = Some(i)] :
             t \in HeldTokens, i \in 1..Len(users)}

Credentials == {None} \cup {Some(t) : t \in HeldTokens \cup CraftedTokens}

(***************************************************************************)
(* Initial state: an empty store, every worker free                        *)
(***************************************************************************)
Init ==
    /\ users = <<>>
    /\ clock = 0
    /\ pc = [w \in Workers |-> "idle"]
    /\ req = [w \in Workers |-> NoRequest]
    /\ last = Exchange(NoRequest, NoResponse)
    /\ calls = [w \in Workers |-> 0]

(***************************************************************************)
(* register, one action per storage step                                   *)
(***************************************************************************)
\* existing_user = await db.users.find_one({"email": ...}) and its check
RegisterFindEmail(w, email, username, password) ==
    /\ pc[w] = "idle"
    /\ IF FindOne(users, "email", email) # None
       THEN /\ last' = Exchange(Arrived(email, username, password),
                   Response("register", 400, "Email already registered"))
            /\ UNCHANGED <<pc, req>>
       ELSE /\ req' = [req EXCEPT ![w] = Arrived(email, username, password)]
            /\ pc' = [pc EXCEPT ![w] = "reg_username"]
            /\ last' = last
    /\ UNCHANGED <<users, clock, calls>>

\* register without the username check
RegisterFindUsername_NoCheck(w) ==
    /\ pc[w] = "reg_username"
    /\ pc' = [pc EXCEPT ![w] = "reg_insert"]
    /\ UNCHANGED <<users, clock, req, last, calls>>

\* existing_username = await db.users.find_one({"username": ...}) and its check
RegisterFindUsername(w) ==
    /\ pc[w] = "reg_username"
    /\ IF FindOne(users, "username", req[w].username) # None
       THEN /\ last' = Exchange(req[w],
                   Response("register", 400, "Username already taken"))
            /\ pc' = [pc EXCEPT ![w] = "idle"]
            /\ req' = [req EXCEPT ![w] = NoRequest]
       ELSE /\ pc' = [pc EXCEPT ![w] = "reg_insert"]
            /\ UNCHANGED <<req, last>>
    /\ UNCHANGED <<users, clock, calls>>

\* hashing, await db.users.insert_one(...), the token and the response
RegisterInsert(w) ==
    /\ pc[w] = "reg_insert"
    /\ LET created == RegisterCreate(req[w], users, clock)
       IN  /\ users' = created.coll
           /\ last' = Exchange(req[w], created.resp)
    /\ pc' = [pc EXCEPT ![w] = "idle"]
    /\ req' = [req EXCEPT ![w] = NoRequest]
    /\ UNCHANGED <<clock, calls>>

Login(w, email, password) ==
    /\ pc[w] = "idle"
    /\ last' = Exchange(Arrived(email, "", password),
           login([email |-> email, password |-> password], users, clock))
    /\ UNCHANGED <<users, clock, pc, req, calls>>

GetMe(w, credentials) ==
    /\ pc[w] = "idle"
    /\ last' = Exchange([NoRequest EXCEPT !.credentials = credentials],
           get_current_user_info(credentials, users, clock))
    /\ UNCHANGED <<users, clock, pc, req, calls>>

\* time passes
Tick(d) ==
    /\ clock + d <= MaxClock
    /\ clock' = clock + d
    /\ UNCHANGED <<users, pc, req, last, calls>>

Next ==
    \/ \E w \in Workers, e \in Emails, u \in Usernames :
           RegisterFindEmail(w, e, u, <<115>>)
    \/ \E w \in Workers : RegisterFindUsername(w)
    \/ \E w \in Workers : RegisterInsert(w)
    \/ \E w \in Workers, e \in Emails, p \in Passwords : Login(w, e, p)
    \/ \E w \in Workers, c \in Credentials : GetMe(w, c)
    \/ \E d \in {DefaultExpireMinutes, ACCESS_TOKEN_EXPIRE_MINUTES} : Tick(d)

Spec == Init /\ [][Next]_vars

(***************************************************************************)
(* The same service taking one request at a time: worker 1 alone, so a     *)
(* request ends before the next one arrives.                               *)
(***************************************************************************)
SeqNext ==
    \/ \E e \in Emails, u \in Usernames, p \in Passwords :
           RegisterFindEmail(1, e, u, p)
    \/ RegisterFindUsername(1)
    \/ RegisterInsert(1)
    \/ \E e \in Emails, p \in Passwords : Login(1, e, p)
    \/ \E c \in Credentials : GetMe(1, c)
    \/ \E d \in {DefaultExpireMinutes, ACCESS_TOKEN_EXPIRE_MINUTES} : Tick(d)

SeqSpec == Init /\ [][SeqNext]_vars

(***************************************************************************)
(* register and login alone, one request at a time, with passwords around  *)
(* the 72-byte limit of bcrypt.  115 is "s" (one byte), 233 is e-acute     *)
(* (two bytes).                                                            *)
(***************************************************************************)
LongPasswords ==
    {<<115>>,
     Rep(BcryptMaxBytes, 115),
     \* 100 ASCII characters
     Rep(100, 115),
     \* 72 bytes, the last two of them the e-acute
     Rep(BcryptMaxBytes - 2, 115) \o <<233>>,
     \* 73 bytes, the e-acute across the limit
     Rep(BcryptMaxBytes - 1, 115) \o <<233>>,
     \* 74 bytes, the e-acute after the limit
     Rep(BcryptMaxBytes, 115) \o <<233>>}

PasswordNext ==
    \/ \E e \in Emails, u \in Usernames, p \in LongPasswords :
           RegisterFindEmail(1, e, u, p)
    \/ RegisterFindUsername(1)
    \/ RegisterInsert(1)
    \/ \E e \in Emails, p \in LongPasswords : Login(1, e, p)

PasswordSpec == Init /\ [][PasswordNext]_vars

(***************************************************************************)
(* The token helpers alone: create_access_token applied to any subject and *)
(* any expires_delta (None, timedelta(0), 15 and 30 minutes), and          *)
(* jwt.decode applied to the token returned last.                          *)
(***************************************************************************)
Subjects == {1, 2}
Deltas == {None, Some(0), Some(DefaultExpireMinutes),
           Some(ACCESS_TOKEN_EXPIRE_MINUTES)}

CreateToken(sub, expires_delta) ==
    /\ last' = Exchange(
           [NoRequest EXCEPT !.sub = sub, !.expires_delta = expires_delta],
           TokenResponse("issue",
               create_access_token([sub |-> Some(sub)], expires_delta, clock)))
    /\ UNCHANGED <<users, clock, pc, req, calls>>

DecodeToken(credentials) ==
    /\ credentials # None
    /\ last' = Exchange([NoRequest EXCEPT !.credentials = credentials],
           IF JwtDecode(credentials[1], SECRET_KEY, clock).ok
           THEN Response("verify", 200, "")
           ELSE Response("verify", 401, "Invalid authentication credentials"))
    /\ UNCHANGED <<users, clock, pc, req, calls>>

TokenNext ==
    \/ \E sub \in Subjects, delta \in Deltas : CreateToken(sub, delta)
    \/ \E c \in Credentials : DecodeToken(c)
    \/ \E d \in {DefaultExpireMinutes, ACCESS_TOKEN_EXPIRE_MINUTES} : Tick(d)

TokenSpec == Init /\ [][TokenNext]_vars

(***************************************************************************)
(* The explain route.  The provider's answers: prose of 2, 100, 101 and    *)
(* 250 characters, a JSON object after a word of prose, JSON objects with  *)
(* all, some or none of the four keys, with values of the declared and of  *)
(* other types, JSON documents that are no object, a value that is no      *)
(* text, and an exception.                                                 *)
(***************************************************************************)
Quoted(s) == <<"\"">> \o s \o <<"\"">>
Member(key, text) == Quoted(key) \o <<":">> \o text

RECURSIVE Joined(_)
Joined(texts) ==
    IF texts = <<>> THEN <<>>
    ELSE IF Len(texts) = 1 THEN texts[1]
    ELSE texts[1] \o <<",">> \o Joined(Tail(texts))

Object(members) == <<"{">> \o Joined(members) \o <<"}">>

FullObject ==
    Object(<<Member(KeyShort, Quoted(<<"s">>)),
             Member(KeyDetailed, Quoted(<<"d">>)),
             Member(KeyConfidence, <<"0", ".", "9">>),
             Member(KeySuggestions, <<"[">> \o Quoted(<<"a">>) \o <<"]">>)>>)

ProviderTexts ==
    {<<"o", "k">>, Rep(100, "x"), Rep(101, "x"), Rep(250, "x"),
     <<"J", "S", "O", "N", ":", " ">> \o FullObject,
     FullObject,
     <<" ">> \o FullObject \o <<" ">>,
     FullObject \o <<"x">>,
     Object(<<>>),
     Object(<<Member(KeyDetailed, Quoted(Rep(120, "d")))>>),
     Object(<<Member(KeyShort, Quoted(Rep(120, "y")))>>),
     Object(<<Member(KeyConfidence, <<"1", ".", "5">>)>>),
     Object(<<Member(KeyConfidence, <<"-", "0", ".", "5">>)>>),
     Object(<<Member(KeyConfidence, <<"1">>)>>),
     Object(<<Member(KeyConfidence, Quoted(<<"0", ".", "9">>))>>),
     Object(<<Member(KeyConfidence, Quoted(<<"h", "i", "g", "h">>))>>),
     Object(<<Member(KeySuggestions, Quoted(<<"x">>))>>),
     Object(<<Member(KeyShort, <<"n", "u", "l", "l">>)>>),
     Object(<<Member(KeyDetailed, <<"[", "]">>)>>),
     Object(<<Member(KeySuggestions, <<"[">> \o Quoted(<<"a">>) \o <<"]">>),
              Member(KeyShort, Quoted(<<"s">>))>>),
     <<"[", "1", "]">>, <<"5">>, Quoted(<<"a", "b", "c">>),
     <<"n", "u", "l", "l">>}

ProviderOutcomes ==
    {Raised, Returned(PyNone)} \cup {Returned(PyStr(t)) : t \in ProviderTexts}

\* explain that calls the provider before the caller is resolved
ExplainStart_CallsFirst(w, credentials) ==
    /\ pc[w] = "idle"
    /\ LET current_user == get_current_user(credentials, users, clock)
           request == [NoRequest EXCEPT !.credentials = credentials]
       IN  IF ~current_user.ok
           THEN /\ last' = Exchange(request,
                       Response("explain", current_user.status,
                                current_user.detail))
                /\ UNCHANGED <<pc, req>>
           ELSE /\ req' = [req EXCEPT ![w] = request]
                /\ pc' = [pc EXCEPT ![w] = "explain_wait"]
                /\ last' = last
    /\ calls' = [calls EXCEPT ![w] = 1]
    /\ UNCHANGED <<users, clock>>

\* get_current_user, the prompt, and the call of chat.send_message
ExplainStart(w, credentials) ==
    /\ pc[w] = "idle"
    /\ LET current_user == get_current_user(credentials, users, clock)
           request == [NoRequest EXCEPT !.credentials = credentials]
       IN  IF ~current_user.ok
           THEN /\ last' = Exchange(request,
                       Response("explain", current_user.status,
                                current_user.detail))
                /\ calls' = [calls EXCEPT ![w] = 0]
                /\ UNCHANGED <<pc, req>>
           ELSE /\ req' = [req EXCEPT ![w] = request]
                /\ pc' = [pc EXCEPT ![w] = "explain_wait"]
                /\ calls' = [calls EXCEPT ![w] = 1]
                /\ last' = last
    /\ UNCHANGED <<users, clock>>

\* explain that calls the provider once more when the first call raised
ProviderReturn_Retry(w, outcome) ==
    /\ pc[w] = "explain_wait"
    /\ IF outcome.kind = "raised" /\ calls[w] < 2
       THEN /\ calls' = [calls EXCEPT ![w] = calls[w] + 1]
            /\ UNCHANGED <<pc, req, last>>
       ELSE /\ last' = Exchange([req[w] EXCEPT !.provider = outcome],
                                explain_code(outcome))
            /\ pc' = [pc EXCEPT ![w] = "idle"]
            /\ req' = [req EXCEPT ![w] = NoRequest]
            /\ calls' = calls
    /\ UNCHANGED <<users, clock>>

\* chat.send_message returns or raises; the response is parsed and returned
ProviderReturn(w, outcome) ==
    /\ pc[w] = "explain_wait"
    /\ last' = Exchange([req[w] EXCEPT !.provider = outcome],
                        explain_code(outcome))
    /\ pc' = [pc EXCEPT ![w] = "idle"]
    /\ req' = [req EXCEPT ![w] = NoRequest]
    /\ UNCHANGED <<users, clock, calls>>

ExplainNext ==
    \/ RegisterFindEmail(1, "a@x.com", "a", <<115>>)
    \/ RegisterFindUsername(1)
    \/ RegisterInsert(1)
    \/ \E c \in Credentials : ExplainStart(1, c)
    \/ \E o \in ProviderOutcomes : ProviderReturn(1, o)
    \/ \E d \in {DefaultExpireMinutes, ACCESS_TOKEN_EXPIRE_MINUTES} : Tick(d)

ExplainSpec == Init /\ [][ExplainNext]_vars

(***************************************************************************)
(* Properties                                                              *)
(***************************************************************************)
LastToken == last.resp.token[1].access_token

\* C1: in every reachable state of the store, under any interleaving of the
\* three storage steps of register, no two stored accounts share an email and
\* no two stored accounts share a username.
C1_UniqueEmailAndUsername ==
    \A i, j \in 1..Len(users) :
        i # j => /\ users[i].email # users[j].email
                 /\ users[i].username # users[j].username

\* C2: when requests run one after another, a register whose email is already
\* stored, or whose username is already stored, is rejected with HTTP 400
\* whatever its other field is, and returns no token.
C2_SequentialRegisterConflict ==
    (last.resp.op = "register"
        /\ (last.req.email_stored \/ last.req.username_stored))
    => /\ last.resp.status = 400
       /\ last.resp.token = None
       /\ last.resp.detail = IF last.req.email_stored
                             THEN "Email already registered"
                             ELSE "Username already taken"

\* a register with a free email and a stored username was rejected
C2_Witness ==
    /\ last.resp.op = "register"
    /\ ~last.req.email_stored
    /\ last.req.username_stored
    /\ last.resp.status = 400

\* C3: a login fails with the same response (401, same detail) whether no
\* account has the email or the password does not verify, and returns a token
\* only when the email exists and the password verifies.
C3_LoginFailuresAlike ==
    last.resp.op = "login"
    => LET user == FindOne(users, "email", last.req.email)
       IN  IF user # None
              /\ verify_password(last.req.password, user[1].hashed_password)
           THEN last.resp.status = 200 /\ last.resp.token # None
           ELSE last.resp = Response("login", 401, "Incorrect email or password")

\* a login with a stored email and a wrong password failed
C3_Witness ==
    /\ last.resp.op = "login"
    /\ last.req.email_stored
    /\ last.resp.status = 401

\* C4: a token returned by a successful register or login, presented to
\* get_current_user at any instant before its expiry, resolves to the account
\* it was returned for, and to no other.
C4_TokenResolvesToItsAccount ==
    (last.resp.op \in {"register", "login"}
        /\ last.resp.token # None
        /\ clock < LastToken.payload.exp)
    => LET resolved == get_current_user(Some(LastToken), users, clock)
       IN  /\ resolved.ok
           /\ resolved.user[1].id = LastToken.payload.sub[1]
           /\ resolved.user[1].email = last.req.email
           /\ \A i \in 1..Len(users) :
                  users[i].id = LastToken.payload.sub[1]
                  => users[i] = resolved.user[1]

\* the token of a login to the second account, some time after the login and
\* before its expiry, resolves
C4_Witness ==
    /\ last.resp.op = "login"
    /\ last.resp.token # None
    /\ LastToken.payload.sub = Some(2)
    /\ last.at < clock
    /\ clock < LastToken.payload.exp
    /\ get_current_user(Some(LastToken), users, clock).ok

TokenAcceptable(t, coll, now) ==
    /\ t.wellformed
    /\ t.sig = Sign(SECRET_KEY, t.payload)
    /\ t.payload.sub # None
    /\ now < t.payload.exp
    /\ \E i \in 1..Len(coll) : coll[i].id = t.payload.sub[1]

\* C5: get_current_user returns an account only if the signature verifies,
\* the payload carries a subject, the instant is strictly before the expiry
\* and the subject is stored; otherwise the request ends with 401 and no
\* account.
C5_ResolverAcceptsOnlyValidTokens ==
    (last.resp.op = "me" /\ last.req.credentials # None)
    => IF TokenAcceptable(last.req.credentials[1], users, last.at)
       THEN /\ last.resp.status = 200
            /\ last.resp.user # None
            /\ last.resp.user[1].id = last.req.credentials[1].payload.sub[1]
       ELSE /\ last.resp.status = 401
            /\ last.resp.user = None
            /\ last.resp.token = None

\* a token of the service for a stored account was presented at the instant
\* of its expiry and refused
C5_Witness ==
    /\ last.resp.op = "me"
    /\ last.req.credentials # None
    /\ TokenAcceptable(last.req.credentials[1], users, 0)
    /\ last.at = last.req.credentials[1].payload.exp
    /\ last.resp.status = 401

\* C6: create_access_token embeds the expiry "issue time + ttl" for every ttl
\* supplied, ttl = 0 included, so that a token issued with ttl = 0 fails
\* verification from its issue on; the 15-minute default is used only when
\* no ttl is supplied.
C6_ExpiryIsIssuePlusTtl ==
    last.resp.op = "issue"
    => /\ LastToken.payload.exp =
              last.at + (IF last.req.expires_delta = None
                         THEN DefaultExpireMinutes
                         ELSE last.req.expires_delta[1])
       /\ last.req.expires_delta = Some(0)
              => ~JwtDecode(LastToken, SECRET_KEY, clock).ok

\* C7: the success response of GET /auth/me does not contain the account's
\* password hash.
C7_MeOmitsPasswordHash ==
    (last.resp.op = "me" /\ last.resp.status = 200)
    => "hashed_password" \notin DOMAIN last.resp.user[1]

ExplainAuthenticated ==
    \/ last.req.provider.kind # "none"
    \/ /\ last.req.credentials # None
       /\ TokenAcceptable(last.req.credentials[1], users, last.at)

FullyPopulated(fields) ==
    /\ DOMAIN fields = {"explanation", "short_explanation",
                        "confidence_score", "suggestions"}
    /\ fields.explanation.type = "str"
    /\ fields.short_explanation.type = "str"
    /\ fields.confidence_score.type = "num"
    /\ fields.suggestions.type = "list"
    /\ \A k \in 1..Len(fields.suggestions.items) :
           fields.suggestions.items[k].type = "str"

\* C8: an authenticated explain request ends, whatever the provider does, in
\* a success response with all four fields populated with values of the
\* declared types, or in HTTP 500; a response with a field missing or of
\* another type is never returned.
C8_ExplainFullResultOrFailure ==
    (last.resp.op = "explain" /\ ExplainAuthenticated)
    => \/ /\ last.resp.status = 200
          /\ last.resp.result # None
          /\ FullyPopulated(last.resp.result[1])
       \/ /\ last.resp.status = 500
          /\ last.resp.result = None

\* the provider returned a JSON object whose confidence_score is a word, and
\* the request succeeded
C8_Witness ==
    /\ last.resp.op = "explain"
    /\ last.req.provider =
           Returned(PyStr(Object(<<Member(KeyConfidence,
                                          Quoted(<<"h", "i", "g", "h">>))>>)))
    /\ last.resp.status = 200

HasKey(d, key) == \E i \in 1..Len(d.items) : d.items[i].key = key

\* the text is no JSON, or JSON that is no object, or an object in which a
\* key that is present has a value of another type than declared
Unparseable(response) ==
    LET parsed == JsonLoads(response)
        d == parsed.value
    IN  \/ ~parsed.ok
        \/ d.type # "dict"
        \/ HasKey(d, KeyDetailed) /\ ~IsStr(DictGet(d, KeyDetailed, PyNone))
        \/ HasKey(d, KeyShort) /\ ~IsStr(DictGet(d, KeyShort, PyNone))
        \/ HasKey(d, KeyConfidence)
              /\ ~IsFloat(DictGet(d, KeyConfidence, PyNone))
        \/ HasKey(d, KeySuggestions)
              /\ ~IsListOfStr(DictGet(d, KeySuggestions, PyNone))

\* C9: when the provider's text cannot be parsed into the expected JSON
\* object, explain returns the whole text as explanation, as
\* short_explanation its first 100 characters and "..." if it is longer than
\* 100 characters and the text itself otherwise, confidence_score 0.8 and the
\* fixed two suggestions.
C9_FallbackResult ==
    (last.resp.op = "explain"
        /\ last.req.provider.kind = "returned"
        /\ last.req.provider.value.type = "str"
        /\ Unparseable(last.req.provider.value))
    => LET raw == last.req.provider.value.s
       IN  /\ last.resp.status = 200
           /\ last.resp.result =
                  Some(Fields(PyStr(raw),
                              PyStr(IF Len(raw) > 100
                                    THEN SubSeq(raw, 1, 100) \o <<".", ".", ".">>
                                    ELSE raw),
                              PyNum(8),
                              FallbackSuggestions))
           /\ Len(FallbackSuggestions.items) = 2

\* the provider returned 250 characters of prose and the request succeeded
C9_Witness ==
    /\ last.resp.op = "explain"
    /\ last.req.provider = Returned(PyStr(Rep(250, "x")))
    /\ last.resp.status = 200
    /\ last.resp.result[1].short_explanation.s = Rep(100, "x") \o Ellipsis

\* C10: every success response of explain has confidence_score within
\* [0.0, 1.0], whatever the provider returned.
C10_ConfidenceInUnitInterval ==
    (last.resp.op = "explain" /\ last.resp.status = 200)
    => /\ last.resp.result[1].confidence_score.n >= 0
       /\ last.resp.result[1].confidence_score.n <= 10

(***************************************************************************)
(* C11: for every password, also one longer than 72 bytes, registering     *)
(* with it succeeds and a login with the same password then succeeds.      *)
(* Stated on the exchange of a registration that met no conflict: it ended *)
(* 200, and login with its email and its password, against the store it    *)
(* left, ends 200.                                                         *)
(***************************************************************************)
C11_RegisterThenLoginSucceeds ==
    (/\ last.resp.op = "register"
     /\ ~last.req.email_stored
     /\ ~last.req.username_stored)
        => /\ last.resp.status = 200
           /\ login([email |-> last.req.email,
                     password |-> last.req.password], users, clock).status = 200

(***************************************************************************)
(* C12: an explain request calls the provider at most once.  While a       *)
(* request waits for the provider its count of calls is 1 and stays 1; the *)
(* step that takes the provider's outcome ends the request: with HTTP 500  *)
(* when the call raised, and, when it returned a text that cannot be       *)
(* parsed, with the fallback built from that same text.                    *)
(***************************************************************************)
C12_SingleProviderCall ==
    [][\A w \in Workers :
          /\ calls'[w] <= 1
          /\ pc[w] = "explain_wait"
                => /\ calls[w] = 1
                   /\ calls'[w] = 1
                   /\ pc'[w] = "explain_wait" => last' = last
                   /\ pc'[w] # "explain_wait"
                         => /\ pc'[w] = "idle"
                            /\ last'.resp.op = "explain"
                            /\ last'.req.provider.kind \in {"raised", "returned"}
                            /\ last'.req.provider.kind = "raised"
                                  => /\ last'.resp.status = 500
                                     /\ last'.resp.result = None
                            /\ (/\ last'.req.provider.kind = "returned"
                                /\ last'.req.provider.value.type = "str"
                                /\ Unparseable(last'.req.provider.value))
                                  => /\ last'.resp.status = 200
                                     /\ last'.resp.result[1].explanation
                                            = last'.req.provider.value]_vars

\* the single call raised and the request ended with HTTP 500
C12_Witness ==
    /\ last.resp.op = "explain"
    /\ last.req.provider = Raised
    /\ last.resp.status = 500
    /\ calls[1] = 1

(***************************************************************************)
(* C13: the provider is called for an explain request only after the       *)
(* bearer token was verified and resolved to a stored account.  The step   *)
(* that starts the call has credentials that are acceptable at that        *)
(* instant; a request with no token (403) or with a token that is not      *)
(* acceptable (401) is answered in one step in which no call is made; and  *)
(* the count of calls rises in no other step.                              *)
(***************************************************************************)
C13_ProviderOnlyAfterAuthentication ==
    [][\A w \in Workers :
          /\ (pc[w] = "idle" /\ pc'[w] = "explain_wait")
                => /\ req'[w].credentials # None
                   /\ TokenAcceptable(req'[w].credentials[1], users, clock)
                   /\ calls'[w] = 1
          /\ (last' # last /\ last'.resp.op = "explain"
                 /\ last'.req.provider.kind = "none")
                => /\ last'.resp.status
                          = IF last'.req.credentials = None THEN 403 ELSE 401
                   /\ last'.req.credentials # None
                         => ~TokenAcceptable(last'.req.credentials[1],
                                             users, clock)
                   /\ calls'[w] <= calls[w]
                   /\ pc'[w] = pc[w]
          /\ calls'[w] > calls[w]
                => (pc[w] = "idle" /\ pc'[w] = "explain_wait")]_vars

\* a token that has expired was presented, the request ended 401 and the
\* provider was not called
C13_Witness ==
    /\ last.resp.op = "explain"
    /\ last.resp.status = 401
    /\ last.req.credentials # None
    /\ last.req.credentials[1].sig
           = Sign(SECRET_KEY, last.req.credentials[1].payload)
    /\ last.req.credentials[1].payload.exp <= last.at
    /\ users # <<>>
    /\ calls[1] = 0

\* the value of a key that is present
ValueOf(d, key) == DictGet(d, key, PyNone)

\* every key that is present has a value of its JSON type: a string, a
\* number, a list of strings
PresentKeysTyped(d) ==
    /\ HasKey(d, KeyDetailed) => ValueOf(d, KeyDetailed).type = "str"
    /\ HasKey(d, KeyShort) => ValueOf(d, KeyShort).type = "str"
    /\ HasKey(d, KeyConfidence) => ValueOf(d, KeyConfidence).type = "num"
    /\ HasKey(d, KeySuggestions) => IsListOfStr(ValueOf(d, KeySuggestions))

ShortSource(response) ==
    IF ~Unparseable(response) /\ HasKey(JsonLoads(response).value, KeyShort)
    THEN ValueOf(JsonLoads(response).value, KeyShort).s
    ELSE response.s

(***************************************************************************)
(* C15: in every success response of explain the short_explanation is      *)
(* bounded: when the text it is derived from has at most 100 characters it *)
(* has at most 100 characters, and when that text is longer it is the      *)
(* first 100 characters followed by "...".  This on the parsed path, with  *)
(* the key supplied or defaulted from the whole text, and on the fallback  *)
(* path.                                                                   *)
(***************************************************************************)
C15_ShortExplanationBounded ==
    (last.resp.op = "explain" /\ last.resp.status = 200)
    => LET source == ShortSource(last.req.provider.value)
           short == last.resp.result[1].short_explanation.s
       IN  IF Len(source) > 100
           THEN short = SubSeq(source, 1, 100) \o <<".", ".", ".">>
           ELSE Len(short) <= 100

====
